---- MODULE Spec2Model ----
(***************************************************************************)
(* A model of the can-utils crate: the bit timing solver of                *)
(* src/timing_calculator.rs (BitSamplePoint::new, compute_timing_parameters *)
(* and CanBitTimingParameterIter::next) and the CAN-FD DLC conversions of  *)
(* src/frames.rs.                                                          *)
(*                                                                         *)
(* Rust integer arithmetic depends on the build: with overflow checks      *)
(* (the debug profile) an out-of-range result panics, without them (the    *)
(* release profile) it wraps modulo 2^w.  The variable overflow_checks     *)
(* selects the build, and both are explored.  An `as u8` cast truncates    *)
(* silently in either build.                                               *)
(*                                                                         *)
(* The inputs are bounded so that every u32 product of the code            *)
(* (1_000_000 * clock, tq * 1000) stays below 2^31; the only u32 operation *)
(* that leaves its range within these bounds is the subtraction            *)
(* tq - sample, whose wrapped value 2^32 + (tq - sample) is only ever      *)
(* compared with 1 and narrowed to 8 bits, both of which are computed      *)
(* here from the mathematical difference.                                  *)
(***************************************************************************)
EXTENDS Integers, Sequences, FiniteSets, TLC

\* ------------------------------------------------------------------ bounds
\* limits.max_baud_rate_prescaler is drawn from 0..MaxPrescalerLimit
MaxPrescalerLimit == 10
\* jump_width is drawn from 1..MaxJumpWidth
MaxJumpWidth == 2
\* number of next() calls made after the iterator has returned None
MaxNoneReturns == 2

\* --------------------------------------------------------- program constants
\* SegmentLengthInnerType = u8: values are taken modulo 2^8
U8Modulus == 256
\* the minimum number of time quanta per bit accepted by next()
MinTimeQuanta == 8
\* BitSamplePoint::MINIMUM_SAMPLE_POINT and MAXIMUM_SAMPLE_POINT
MINIMUM_SAMPLE_POINT == 500
MAXIMUM_SAMPLE_POINT == 990

\* ------------------------------------------------------------------- inputs
\* MegaHertz values handed to compute_timing_parameters
ClockSpeeds == {8, 16, 80}
\* BitsPerSecond values handed to compute_timing_parameters
Bitrates == {125000, 250000, 300000, 500000, 1000000}
\* u16 values handed to BitSamplePoint::new (in and out of 500..990)
SamplePointInputs == {0, 400, 500, 750, 875, 900, 990, 1100}
\* SegmentLength limits of a controller
SegmentLimits1 == {16, 255}
SegmentLimits2 == {8, 255}

\* Option<CanBitTimingParameters>, and the two other outcomes of a call
None == [kind |-> "None"]
Some(v) == [kind |-> "Some", value |-> v]
NotCalled == [kind |-> "NotCalled"]
Panic == [kind |-> "Panic"]
\* values not yet constructed
NoIter == [kind |-> "NoIter"]
NoSamplePoint == [kind |-> "NoSamplePoint"]

VARIABLES
  pc,                \* "start", "ready" (sample point built), "iterating"
  overflow_checks,   \* TRUE: overflow panics; FALSE: overflow wraps
  clock_speed,       \* MegaHertz argument
  nominal_bitrate,   \* BitsPerSecond argument
  tenths_arg,        \* the argument of BitSamplePoint::new
  jump_width_arg,    \* SegmentLength argument
  interface_limits,  \* the CanTimingLimits borrowed by the iterator
  sample_point,      \* the BitSamplePoint built by BitSamplePoint::new
  iter,              \* the CanBitTimingParameterIter (its four own fields)
  result,            \* what the last call of next() returned
  yielded,           \* the candidates returned so far, in order
  wrapped,           \* some arithmetic step of next() has wrapped
  none_returns,      \* calls of next() that returned None
  dlc,               \* frames.rs: the DLC code being converted
  byte_count,        \* frames.rs: can_fd_dlc_to_byte_count(dlc)
  dlc_back,          \* frames.rs: byte_count_to_can_fd_dlc(byte_count)
  pcDlc              \* "idle", "start", "decoded", "encoded"

timingVars == <<pc, overflow_checks, clock_speed, nominal_bitrate, tenths_arg,
                jump_width_arg, interface_limits, sample_point, iter, result,
                yielded, wrapped, none_returns>>
dlcVars == <<dlc, byte_count, dlc_back, pcDlc>>
vars == <<pc, overflow_checks, clock_speed, nominal_bitrate, tenths_arg,
          jump_width_arg, interface_limits, sample_point, iter, result,
          yielded, wrapped, none_returns, dlc, byte_count, dlc_back, pcDlc>>

Max(a, b) == IF a >= b THEN a ELSE b

\* ------------------------------------------------------- timing_calculator.rs

\* CanTimingLimits: the controllers the solver is run against
CanTimingLimits ==
  [max_baud_rate_prescaler : 0..MaxPrescalerLimit,
   max_segment_1_length : SegmentLimits1,
   max_segment_2_length : SegmentLimits2,
   max_jump_width : {4}]

\* BitSamplePoint::new: no check is made, the value is stored as given
BitSamplePointNew(tenths_of_a_percent) ==
  [tenths_of_a_percent |-> tenths_of_a_percent]

\* the struct literal of compute_timing_parameters
CanBitTimingParameterIter(clock, bitrate, sp, jw) ==
  [bit_width |-> (1000000 * clock) \div bitrate,
   jump_width |-> jw,
   target_sample_point |-> sp.tenths_of_a_percent,
   last_attempted_prescaler |-> 1]

\* LoopCond with <= for <: one prescaler too many is attempted
LoopCondInclusive(cursor, limits) ==
  cursor <= limits.max_baud_rate_prescaler

\* the loop condition of next(), without the result.is_none() conjunct
LoopCond(cursor, limits) ==
  cursor < limits.max_baud_rate_prescaler

\* CanBitTimingParameters with the quanta count stored for the prescaler
CanBitTimingParametersTq(self, p, seg1, seg2) ==
  [baud_rate_prescaler |-> self.bit_width \div p,
   seg1 |-> seg1,
   seg2 |-> seg2,
   jump_width |-> self.jump_width]

\* the CanBitTimingParameters literal built when a prescaler is accepted
CanBitTimingParameters(self, p, seg1, seg2) ==
  [baud_rate_prescaler |-> p,
   seg1 |-> seg1,
   seg2 |-> seg2,
   jump_width |-> self.jump_width]

\* seg1 > max_segment_1_length || seg2 > max_segment_2_length
ExceedsLimits(limits, seg1, seg2) ==
  \/ seg1 > limits.max_segment_1_length
  \/ seg2 > limits.max_segment_2_length

\* One pass of the loop body of next() for prescaler p.
\* kind: "continue" (p rejected), "panic", or "some" (candidate in cand);
\* wrapped tells whether an arithmetic step wrapped on the way.
LoopBody(self, limits, checks, p) ==
  IF self.bit_width % p # 0
  THEN [kind |-> "continue", wrapped |-> FALSE]
  ELSE
  LET tq == self.bit_width \div p IN
  IF tq < MinTimeQuanta
  THEN [kind |-> "continue", wrapped |-> FALSE]
  ELSE
  IF self.target_sample_point = 0
  THEN [kind |-> "panic", wrapped |-> FALSE]          \* division by zero
  ELSE
  LET sample == (tq * 1000) \div self.target_sample_point
      diff == tq - sample                             \* u32 subtraction
  IN
  IF diff < 0 /\ checks
  THEN [kind |-> "panic", wrapped |-> FALSE]
  ELSE
  LET \* cmp::max(1, tq - sample) as u8; a wrapped difference is
      \* 2^32 + diff, which is >= 1 and is diff modulo 2^8 once narrowed
      seg2 == IF diff < 0 THEN diff % U8Modulus
                          ELSE Max(1, diff) % U8Modulus
      tq8 == tq % U8Modulus                           \* tq as u8
      d1 == tq8 - seg2                                \* u8 subtraction
      d2 == (d1 % U8Modulus) - 1                      \* u8 subtraction
      seg1 == d2 % U8Modulus
      w == diff < 0 \/ d1 < 0 \/ d2 < 0
  IN
  IF (d1 < 0 \/ d2 < 0) /\ checks
  THEN [kind |-> "panic", wrapped |-> FALSE]
  ELSE IF ExceedsLimits(limits, seg1, seg2)
  THEN [kind |-> "continue", wrapped |-> w]
  ELSE [kind |-> "some", wrapped |-> w,
        cand |-> CanBitTimingParameters(self, p, seg1, seg2)]

\* The while loop of next(), from cursor value `cursor` on: the value of
\* last_attempted_prescaler when the call ends, what the call returns, and
\* whether any step wrapped.
RECURSIVE WhileLoop(_, _, _, _, _)
WhileLoop(self, limits, checks, cursor, w) ==
  IF ~LoopCond(cursor, limits)
  THEN [cursor |-> cursor, result |-> None, wrapped |-> w]
  ELSE
  LET p == cursor + 1
      b == LoopBody(self, limits, checks, p)
  IN
  CASE b.kind = "continue" ->
         WhileLoop(self, limits, checks, p, w \/ b.wrapped)
    [] b.kind = "panic" ->
         [cursor |-> p, result |-> Panic, wrapped |-> w]
    [] b.kind = "some" ->
         [cursor |-> p, result |-> Some(b.cand), wrapped |-> w \/ b.wrapped]

\* BitSamplePoint::new(tenths_arg)
New ==
  /\ pc = "start"
  /\ sample_point' = BitSamplePointNew(tenths_arg)
  /\ pc' = "ready"
  /\ UNCHANGED <<overflow_checks, clock_speed, nominal_bitrate, tenths_arg,
                 jump_width_arg, interface_limits, iter, result, yielded,
                 wrapped, none_returns>>
  /\ UNCHANGED dlcVars

\* compute_timing_parameters(clock_speed, nominal_bitrate, sample_point,
\*                           jump_width, &interface_limits)
compute_timing_parameters ==
  /\ pc = "ready"
  /\ iter' = CanBitTimingParameterIter(clock_speed, nominal_bitrate,
                                       sample_point, jump_width_arg)
  /\ pc' = "iterating"
  /\ UNCHANGED <<overflow_checks, clock_speed, nominal_bitrate, tenths_arg,
                 jump_width_arg, interface_limits, sample_point, result,
                 yielded, wrapped, none_returns>>
  /\ UNCHANGED dlcVars

\* CanBitTimingParameterIter::next; a call that panics does not return,
\* and nothing is called after it
next ==
  /\ pc = "iterating"
  /\ result # Panic
  /\ result = None => none_returns < MaxNoneReturns
  /\ LET r == WhileLoop(iter, interface_limits, overflow_checks,
                        iter.last_attempted_prescaler, FALSE)
     IN /\ iter' = [iter EXCEPT !.last_attempted_prescaler = r.cursor]
        /\ result' = r.result
        /\ yielded' = IF r.result.kind = "Some"
                      THEN Append(yielded, r.result.value) ELSE yielded
        /\ wrapped' = (wrapped \/ r.wrapped)
        /\ none_returns' = IF r.result = None
                           THEN none_returns + 1 ELSE none_returns
  /\ UNCHANGED <<pc, overflow_checks, clock_speed, nominal_bitrate,
                 tenths_arg, jump_width_arg, interface_limits, sample_point>>
  /\ UNCHANGED dlcVars

Init ==
  /\ pc = "start"
  /\ overflow_checks \in BOOLEAN
  /\ clock_speed \in ClockSpeeds
  /\ nominal_bitrate \in Bitrates
  /\ tenths_arg \in SamplePointInputs
  /\ jump_width_arg \in 1..MaxJumpWidth
  /\ interface_limits \in CanTimingLimits
  /\ sample_point = NoSamplePoint
  /\ iter = NoIter
  /\ result = NotCalled
  /\ yielded = <<>>
  /\ wrapped = FALSE
  /\ none_returns = 0
  /\ dlc = 0
  /\ byte_count = 0
  /\ dlc_back = 0
  /\ pcDlc = "idle"

Next ==
  \/ New
  \/ compute_timing_parameters
  \/ next

Spec == Init /\ [][Next]_vars

\* ----------------------------------------------------------------- frames.rs

\* byte_count_to_can_fd_dlc with the arms 25...32 and 32...48 exchanged
byte_count_to_can_fd_dlc_swapped(bc) ==
  IF bc <= 8 THEN bc
  ELSE IF bc <= 12 THEN 9
  ELSE IF bc <= 16 THEN 10
  ELSE IF bc <= 20 THEN 11
  ELSE IF bc <= 24 THEN 12
  ELSE IF bc >= 32 /\ bc <= 48 THEN 14
  ELSE IF bc >= 25 /\ bc <= 32 THEN 13
  ELSE 15

\* can_fd_dlc_to_byte_count: dlc & 0xF is dlc % 16, dlc & 0b111 is dlc % 8
can_fd_dlc_to_byte_count(d) ==
  LET n == d % 16 IN
  IF n <= 8 THEN d
  ELSE IF n <= 12 THEN 8 + 4 * (d % 8)
  ELSE IF n = 13 THEN 32
  ELSE IF n = 14 THEN 48
  ELSE 64

\* byte_count_to_can_fd_dlc: the arms of the match, first match wins
byte_count_to_can_fd_dlc(bc) ==
  IF bc <= 8 THEN bc
  ELSE IF bc <= 12 THEN 9
  ELSE IF bc <= 16 THEN 10
  ELSE IF bc <= 20 THEN 11
  ELSE IF bc <= 24 THEN 12
  ELSE IF bc >= 25 /\ bc <= 32 THEN 13
  ELSE IF bc >= 32 /\ bc <= 48 THEN 14
  ELSE 15

\* a call of can_fd_dlc_to_byte_count(dlc)
ToByteCount ==
  /\ pcDlc = "start"
  /\ byte_count' = can_fd_dlc_to_byte_count(dlc)
  /\ pcDlc' = "decoded"
  /\ UNCHANGED <<dlc, dlc_back>>
  /\ UNCHANGED timingVars

\* a call of byte_count_to_can_fd_dlc(byte_count)
ToDlc ==
  /\ pcDlc = "decoded"
  /\ dlc_back' = byte_count_to_can_fd_dlc(byte_count)
  /\ pcDlc' = "encoded"
  /\ UNCHANGED <<dlc, byte_count>>
  /\ UNCHANGED timingVars

\* the conversions are run on every u8 value; the solver is not started
InitDlc ==
  /\ pc = "idle"
  /\ overflow_checks = FALSE
  /\ clock_speed = 0
  /\ nominal_bitrate = 0
  /\ tenths_arg = 0
  /\ jump_width_arg = 0
  /\ interface_limits = [max_baud_rate_prescaler |-> 0,
                         max_segment_1_length |-> 0,
                         max_segment_2_length |-> 0,
                         max_jump_width |-> 0]
  /\ sample_point = NoSamplePoint
  /\ iter = NoIter
  /\ result = NotCalled
  /\ yielded = <<>>
  /\ wrapped = FALSE
  /\ none_returns = 0
  /\ dlc \in 0..(U8Modulus - 1)
  /\ byte_count = 0
  /\ dlc_back = 0
  /\ pcDlc = "start"

NextDlc ==
  \/ ToByteCount
  \/ ToDlc

SpecDlc == InitDlc /\ [][NextDlc]_vars

\* ------------------------------------------------------------------ properties

\* the iterator exists and its sample point is within the documented range
ValidIter ==
  /\ pc = "iterating"
  /\ clock_speed > 0
  /\ nominal_bitrate > 0
  /\ iter.target_sample_point \in MINIMUM_SAMPLE_POINT..MAXIMUM_SAMPLE_POINT

\* the reference formulas of the algorithm, over the mathematical integers
RefTq(p) == iter.bit_width \div p
RefSample(p) == (RefTq(p) * 1000) \div iter.target_sample_point
RefSeg2(p) == Max(1, RefTq(p) - RefSample(p))
RefSeg1(p) == RefTq(p) - RefSeg2(p) - 1

\* prescaler p has a consistent set of segment lengths within the limits
Qualifies(p) ==
  /\ iter.bit_width % p = 0
  /\ RefTq(p) >= MinTimeQuanta
  /\ RefSeg1(p) <= interface_limits.max_segment_1_length
  /\ RefSeg2(p) <= interface_limits.max_segment_2_length

YieldedPrescalers == {yielded[i].baud_rate_prescaler : i \in DOMAIN yielded}

\* C1: once next() has returned None, every prescaler p of
\* 1..max_baud_rate_prescaler that divides bit_width, leaves at least 8
\* quanta and has segment lengths within the limits has been yielded,
\* p = 1 included.
C1_Complete ==
  (ValidIter /\ result = None) =>
    \A p \in 1..interface_limits.max_baud_rate_prescaler :
      Qualifies(p) => p \in YieldedPrescalers

\* C2: the prescalers of the candidates yielded by one iterator are strictly
\* increasing in the order they were yielded, so none is yielded twice.
C2_StrictlyIncreasing ==
  \A i, j \in DOMAIN yielded :
    i < j => yielded[i].baud_rate_prescaler < yielded[j].baud_rate_prescaler

C2_Witness ==
  /\ ValidIter
  /\ Len(yielded) >= 3
  /\ result = None

\* C3: every yielded candidate has a prescaler that divides bit_width and
\* segment lengths that add up, with the sync quantum, to bit_width / prescaler.
C3_WholeBit ==
  ValidIter =>
    \A i \in DOMAIN yielded :
      /\ iter.bit_width % yielded[i].baud_rate_prescaler = 0
      /\ 1 + yielded[i].seg1 + yielded[i].seg2
           = iter.bit_width \div yielded[i].baud_rate_prescaler

\* C4: for a sample point in 500..990 every yielded candidate has
\* seg1 >= seg2 >= 1.
C4_SegmentOrder ==
  ValidIter =>
    \A i \in DOMAIN yielded :
      /\ yielded[i].seg1 >= yielded[i].seg2
      /\ yielded[i].seg2 >= 1

\* C5: on an iterator built from valid inputs no call of next() panics and
\* no arithmetic step of next() wraps.
C5_NoError ==
  ValidIter => (result # Panic /\ ~wrapped)

\* C7: BitSamplePoint::new does not return a sample point that holds a
\* value outside 500..990.
C7_Validated ==
  (pc # "start" /\ tenths_arg \notin MINIMUM_SAMPLE_POINT..MAXIMUM_SAMPLE_POINT)
    => sample_point # [tenths_of_a_percent |-> tenths_arg]

\* C8: the segment lengths of every yielded candidate are those of the
\* reference formulas seg2 = max(1, tq - sample) and seg1 = tq - seg2 - 1.
C8_ReferenceSegments ==
  ValidIter =>
    \A i \in DOMAIN yielded :
      /\ yielded[i].seg2 = RefSeg2(yielded[i].baud_rate_prescaler)
      /\ yielded[i].seg1 = RefSeg1(yielded[i].baud_rate_prescaler)

\* C9: every yielded candidate has a prescaler of at most
\* max_baud_rate_prescaler, at least 8 quanta per bit, and segments whose
\* numbers of quanta (as yielded, and as they are in a bit of
\* bit_width / prescaler quanta) are within the limits.
C9_WithinLimits ==
  ValidIter =>
    \A i \in DOMAIN yielded :
      LET p == yielded[i].baud_rate_prescaler IN
      /\ p <= interface_limits.max_baud_rate_prescaler
      /\ RefTq(p) >= MinTimeQuanta
      /\ yielded[i].seg1 <= interface_limits.max_segment_1_length
      /\ yielded[i].seg2 <= interface_limits.max_segment_2_length
      /\ RefSeg1(p) <= interface_limits.max_segment_1_length
      /\ RefSeg2(p) <= interface_limits.max_segment_2_length

\* C10: over the calls of next() the cursor last_attempted_prescaler never
\* decreases and is never advanced past max_baud_rate_prescaler, at most
\* max_baud_rate_prescaler candidates are yielded, and after a call that
\* returned None every call returns None and leaves the cursor unchanged.
C10_FiniteExhaustion ==
  [][(pc = "iterating" /\ pc' = "iterating") =>
       /\ iter'.last_attempted_prescaler >= iter.last_attempted_prescaler
       /\ (iter'.last_attempted_prescaler # iter.last_attempted_prescaler
             => iter'.last_attempted_prescaler
                  <= interface_limits.max_baud_rate_prescaler)
       /\ Len(yielded') <= interface_limits.max_baud_rate_prescaler
       /\ (result = None =>
             /\ result' = None
             /\ iter'.last_attempted_prescaler = iter.last_attempted_prescaler)
    ]_vars

C10_Witness ==
  /\ ValidIter
  /\ result = None
  /\ none_returns >= 2
  /\ Len(yielded) >= 2
  /\ iter.last_attempted_prescaler = interface_limits.max_baud_rate_prescaler

\* C6: for every DLC code n of 0..15,
\* byte_count_to_can_fd_dlc(can_fd_dlc_to_byte_count(n)) = n.
C6_RoundTrip ==
  (pcDlc = "encoded" /\ dlc \in 0..15) => dlc_back = dlc

C6_Witness ==
  /\ pcDlc = "encoded"
  /\ dlc = 13
  /\ byte_count = 32
  /\ dlc_back = 13

====
